---- MODULE Spec2Model ----
(***************************************************************************)
(* Directory Service microblock intake: the shard path                     *)
(* (ProcessMicroblockSubmissionFromShard -> ...FromShardCore), the buffer  *)
(* drain (CommitMBSubmissionMsgBuffer) and the missing-microblock repair   *)
(* path (ProcessMissingMicroblockSubmission) of                            *)
(* src/libDirectoryService/MicroBlockProcessing.cpp, run by concurrent     *)
(* message threads over the shared tables and the two mutexes.             *)
(***************************************************************************)
EXTENDS Integers, Sequences, FiniteSets, TLC

\* ------------------------------------------------------------------------
\* Bounds of the model
\* ------------------------------------------------------------------------
\* The epoch counter runs over 1 .. MaxEpoch.
MaxEpoch == 2
\* The submission buffer holds at most MaxBuffered entries over all its buckets.
MaxBuffered == 2
\* At most MaxMissing hashes are requested per epoch by the repair-request path.
MaxMissing == 2
\* A repair batch carries at most MaxBatch microblocks.
MaxBatch == 2

Epochs == 1 .. MaxEpoch
Threads == {"t1", "t2"}
NoThread == "none"

\* ------------------------------------------------------------------------
\* Configuration of the node (fixed while the core runs)
\* ------------------------------------------------------------------------
\* m_shards: the shard committees, in committee order.
shards == << <<"a1", "a2", "a3", "a4", "a5", "a6", "a7", "a8", "a9", "a10">>,
            <<"b1", "b2", "b3">> >>
\* m_mediator.m_DSCommittee
DSCommittee == <<"d1", "d2", "d3", "d4">>
NumShards == Len(shards)
ShardIds == 0 .. (NumShards - 1)
\* m_mediator.m_node->m_myshardId: a DS node's own shard is the DS shard.
MyShardId == NumShards

Range(s) == {s[i] : i \in DOMAIN s}

\* m_publicKeyToshardIdMap: every shard member's key maps to its shard.
publicKeyToshardIdMap ==
  [k \in UNION {Range(shards[i]) : i \in DOMAIN shards} |->
     CHOOSE s \in ShardIds : k \in Range(shards[s + 1])]

MICROBLOCK_VERSION == 1
CONSENSUS_OBJECT_TIMEOUT == 1
MICROBLOCK_TIMEOUT == 1
EXTRA_TX_DISTRIBUTE_TIME_IN_MS == 1
NUM_FINAL_BLOCK_PER_POW == 2
\* The local wall clock and the latest DS block of the chain.
LocalClock == 10
LatestDSBlockNum == 5

\* ------------------------------------------------------------------------
\* Hashes and signatures
\* ------------------------------------------------------------------------
\* StateHash(): the all-zero hash.
ZeroHash == <<"zero">>
\* State deltas are byte strings.
Deltas == {<<>>, <<1>>, <<2>>}
\* SHA2<HASH_VARIANT_256> over a delta; the digest of the empty string is not zero.
Sha256(bytes) == IF bytes = <<>> THEN <<"sha", <<>>>> ELSE <<"sha", bytes>>
\* Messenger::GetShardHash
ShardHash(committee) == <<"committee", committee>>

\* ConsensusCommon::NumForConsensus: ceil(2n/3) + 1
NumForConsensus(n) == ((2 * n + 2) \div 3) + 1

\* The committee a shard id selects (lines 52, 67).
CommitteeOf(shardId) ==
  IF shardId = NumShards THEN DSCommittee ELSE shards[shardId + 1]

\* The keys at the set positions of a bitmap, in committee order (lines 60-66, 78-84).
SignerKeys(committee, B2) ==
  LET idx == {i \in 1 .. Len(committee) : B2[i]}
      RECURSIVE Take(_)
      Take(i) == IF i > Len(committee) THEN <<>>
                 ELSE IF i \in idx THEN <<committee[i]>> \o Take(i + 1)
                 ELSE Take(i + 1)
  IN Take(1)

CountBits(B) == Cardinality({i \in DOMAIN B : B[i]})

\* MultiSig::AggregatePubKeys: null (here the empty key) for an empty list.
AggregatePubKeys(keys) == IF keys = <<>> THEN {} ELSE Range(keys)

\* The signed message: serialize(header) || serialize(CS1) || bitvector(B1).
SignedMessage(mb) ==
  << <<mb.header.version, mb.header.dsBlockNum, mb.header.epochNum,
       mb.header.shardId, mb.header.minerPubKey, mb.header.committeeHash,
       mb.header.stateDeltaHash, mb.header.myHash>>,
     <<"cs1", mb.CS1>>, <<Len(mb.B1), mb.B1>> >>

\* MultiSig::MultiSigVerify: the signature is over this message by this key.
MultiSigVerify(message, sig, aggregatedKey) ==
  sig.by = aggregatedKey /\ sig.over = message

\* A co-signature check that takes any count from the quorum upwards.
VerifyCoSignatureFromQuorumUp(mb, shardId) ==
  /\ shardId <= NumShards
  /\ Len(CommitteeOf(shardId)) = Len(mb.B2)
  /\ CountBits(mb.B2) >= NumForConsensus(Len(mb.B2))
  /\ MultiSigVerify(SignedMessage(mb), mb.CS2,
                    AggregatePubKeys(SignerKeys(CommitteeOf(shardId), mb.B2)))

\* DirectoryService::VerifyMicroBlockCoSignature
VerifyMicroBlockCoSignature(mb, shardId) ==
  /\ shardId <= NumShards
  /\ Len(CommitteeOf(shardId)) = Len(mb.B2)
  /\ CountBits(mb.B2) = NumForConsensus(Len(mb.B2))
  /\ AggregatePubKeys(SignerKeys(CommitteeOf(shardId), mb.B2)) # {}
  /\ MultiSigVerify(SignedMessage(mb), mb.CS2,
                    AggregatePubKeys(SignerKeys(CommitteeOf(shardId), mb.B2)))

\* ------------------------------------------------------------------------
\* The microblocks the network may deliver
\* ------------------------------------------------------------------------
\* A bitmap of length n with its first k bits set.
Bitmap(n, k) == [i \in 1 .. n |-> i <= k]

\* A well-formed microblock of shard s for epoch e, named by its header hash h.
WellFormed(s, e, h) ==
  LET hdr == [version |-> MICROBLOCK_VERSION,
              dsBlockNum |-> LatestDSBlockNum,
              epochNum |-> e,
              shardId |-> s,
              minerPubKey |-> CommitteeOf(s)[1],
              committeeHash |-> ShardHash(CommitteeOf(s)),
              stateDeltaHash |-> Sha256(<<1>>),
              myHash |-> h]
      n == Len(CommitteeOf(s))
      pre == [header |-> hdr, blockHash |-> h,
              B1 |-> Bitmap(n, NumForConsensus(n)),
              B2 |-> Bitmap(n, NumForConsensus(n)),
              CS1 |-> h, CS2 |-> [by |-> {}, over |-> <<>>],
              timestamp |-> LocalClock]
  IN [pre EXCEPT !.CS2 = [by |-> AggregatePubKeys(SignerKeys(CommitteeOf(s), pre.B2)),
                          over |-> SignedMessage(pre)]]

\* The same block with its header changed and signed again by the same signers.
Resigned(mb) ==
  [mb EXCEPT !.CS2 = [by |-> mb.CS2.by, over |-> SignedMessage(mb)]]

\* Kinds of microblock: "g0", "g1" valid blocks of shards 0 and 1; "alt0" a second
\* valid block of shard 0; "ds" the DS shard's block; the others each break one rule.
Kinds == {"g0", "g1", "alt0", "ds", "dsbad", "badver", "badhash", "badcom",
          "stale", "late", "unk", "wrongshard", "short", "under", "over",
          "badsig", "zerodelta"}

KindShard(kind) ==
  CASE kind \in {"g0", "alt0", "under", "over", "short", "late", "stale"} -> 0
    [] kind \in {"ds", "dsbad"} -> NumShards
    [] OTHER -> 1

MicroBlock(id) ==
  LET kind == id[1]
      e == id[2]
      s == KindShard(kind)
      n == Len(CommitteeOf(s))
      wf == WellFormed(s, e, <<kind, e>>)
  IN CASE kind = "badver" ->
            Resigned([wf EXCEPT !.header.version = MICROBLOCK_VERSION + 1])
       [] kind = "badhash" -> [wf EXCEPT !.blockHash = <<"g1", e>>]
       [] kind = "badcom" ->
            Resigned([wf EXCEPT !.header.committeeHash = ShardHash(CommitteeOf(0))])
       [] kind = "stale" ->
            Resigned([wf EXCEPT !.header.dsBlockNum = LatestDSBlockNum - 1])
       [] kind = "late" ->
            [wf EXCEPT !.timestamp = LocalClock - CONSENSUS_OBJECT_TIMEOUT
                                       - MICROBLOCK_TIMEOUT - EXTRA_TX_DISTRIBUTE_TIME_IN_MS]
       [] kind = "unk" -> Resigned([wf EXCEPT !.header.minerPubKey = "x9"])
       [] kind = "wrongshard" ->
            Resigned([wf EXCEPT !.header.minerPubKey = CommitteeOf(0)[1]])
       [] kind = "short" -> [wf EXCEPT !.B2 = Bitmap(n - 1, n - 1)]
       [] kind \in {"under", "dsbad"} ->
            LET b == Bitmap(n, NumForConsensus(n) - 1)
            IN [wf EXCEPT !.B2 = b,
                          !.CS2.by = AggregatePubKeys(SignerKeys(CommitteeOf(s), b))]
       [] kind = "over" ->
            LET b == Bitmap(n, NumForConsensus(n) + 1)
            IN [wf EXCEPT !.B2 = b,
                          !.CS2.by = AggregatePubKeys(SignerKeys(CommitteeOf(s), b))]
       [] kind = "badsig" -> [wf EXCEPT !.CS2.over = <<>>]
       [] kind = "zerodelta" ->
            Resigned([wf EXCEPT !.header.stateDeltaHash = ZeroHash])
       [] OTHER -> wf

NoMB == <<"none", 0>>

\* Every microblock of the catalogue, by its identifier <<kind, epoch>>.
Catalogue == [id \in (Kinds \X Epochs) |-> MicroBlock(id)]
Block(id) == Catalogue[id]

\* What the message threads of this model submit: <<kind, state delta>>.
GoodInputs == {<<"g0", <<1>>>>, <<"g1", <<1>>>>, <<"alt0", <<1>>>>}
\* Submissions that break one rule of the validator, or carry a delta that does
\* not go with the header's stateDeltaHash.
FaultyInputs ==
  {<<kind, <<1>>>> : kind \in {"ds", "badver", "badhash", "badcom", "stale",
                               "late", "unk", "wrongshard", "short", "under",
                               "over", "badsig", "zerodelta"}}
    \cup {<<"g1", <<>>>>, <<"g1", <<2>>>>, <<"zerodelta", <<>>>>}
ShardInputs == GoodInputs \cup FaultyInputs
RepairInputs == {<<"dsbad", <<1>>>>, <<"badver", <<1>>>>}
\* Repair items that fail one per-item check of the repair path (miner key, CS2,
\* state delta), and two that pass them all.
FaultyRepairs == {<<"unk", <<1>>>>, <<"badsig", <<1>>>>, <<"g1", <<2>>>>}
SoundRepairs == {<<"g0", <<1>>>>, <<"g1", <<1>>>>}

\* ------------------------------------------------------------------------
\* State
\* ------------------------------------------------------------------------
VARIABLES
  m_currentEpochNum,          \* m_mediator.m_currentEpochNum
  processing,                 \* CheckState(PROCESS_MICROBLOCKSUBMISSION)
  m_stopRecvNewMBSubmission,
  m_microBlocks,              \* epoch -> set of microblocks, held by their identifiers
                              \* (an absent bucket is empty)
  m_microBlockStateDeltas,    \* epoch -> set of <<blockHash, delta>>
  m_stateDeltaFromShards,     \* the serialized delta the account store last gave
  accountStoreTemp,           \* deltas deserialized into the temporary account store
  m_MBSubmissionBuffer,       \* partial map: epoch -> sequence of <<microblock, delta>>
  m_missingMicroBlocks,       \* partial map: epoch -> set of block hashes
  blockStorage,               \* BlockStorage: keys <<blockHash, epochNum, shardId>>
  coinbase,                   \* SaveCoinbase records <<B1, B2, shardId, epoch>>
  consensusTasks,             \* RunConsensusOnFinalBlock tasks spawned in this epoch
  cv_scheduleDSMicroBlockConsensus, \* notify_all calls made in this epoch
  cv_MissingMicroBlock,       \* notify_all calls made by the step just taken
  m_mutexMicroBlocks,         \* the thread inside a multi-step critical section, or NoThread
  m_mutexMBSubmissionBuffer,  \* the thread holding the buffer mutex, or NoThread
  th,                         \* each message thread's position and locals
  outcome,                    \* what the step just taken returned or decided, or "none"
  env                         \* the environment of the run, fixed from the start

tables == <<m_microBlocks, m_microBlockStateDeltas, m_stateDeltaFromShards,
            accountStoreTemp, blockStorage, coinbase>>
signals == <<m_stopRecvNewMBSubmission, consensusTasks,
             cv_scheduleDSMicroBlockConsensus>>
vars == <<m_currentEpochNum, processing, m_stopRecvNewMBSubmission, m_microBlocks,
          m_microBlockStateDeltas, m_stateDeltaFromShards, accountStoreTemp,
          m_MBSubmissionBuffer, m_missingMicroBlocks, blockStorage, coinbase,
          consensusTasks, cv_scheduleDSMicroBlockConsensus, cv_MissingMicroBlock,
          m_mutexMicroBlocks, m_mutexMBSubmissionBuffer, th, outcome, env>>

\* A thread outside every operation.
Idle == [pc |-> "idle", op |-> "none", epochNumber |-> 0, mb |-> NoMB,
         delta |-> <<>>, n |-> 0, i |-> 0]

\* What SaveCoinbase, PutMicroBlock and the account store may answer in one call of
\* an operation: all succeed, or the named one is the first to fail.
Faults == {"none", "coinbase", "persist", "deserialize", "serialize"}

\* The environments the runs are explored in: the epoch the node is in at the
\* start and whether it is then in the state PROCESS_MICROBLOCKSUBMISSION, the
\* threads that deliver shard submissions and drain the buffer, the threads that
\* deliver repair batches, whether the network delivers submissions of a later
\* epoch, the entries the submission buffer has room for, what the collaborators
\* may answer, the submissions the shards send, and the items the repair
\* batches carry.
Environments ==
  { [start |-> MaxEpoch, active |-> TRUE, submitters |-> {"t1", "t2"},
     repairers |-> {"t1"}, ahead |-> FALSE, room |-> 1, faults |-> {"none"},
     inputs |-> GoodInputs, repairs |-> RepairInputs],
    [start |-> 1, active |-> FALSE, submitters |-> {"t1"},
     repairers |-> {}, ahead |-> TRUE, room |-> MaxBuffered, faults |-> {"none"},
     inputs |-> GoodInputs, repairs |-> RepairInputs],
    [start |-> 1, active |-> TRUE, submitters |-> {"t1"},
     repairers |-> {"t1"}, ahead |-> FALSE, room |-> 1, faults |-> {"none"},
     inputs |-> GoodInputs, repairs |-> RepairInputs],
    [start |-> MaxEpoch, active |-> TRUE, submitters |-> {"t1"},
     repairers |-> {"t1"}, ahead |-> FALSE, room |-> 1, faults |-> Faults,
     inputs |-> GoodInputs, repairs |-> RepairInputs],
    [start |-> 1, active |-> TRUE, submitters |-> {"t1"},
     repairers |-> {}, ahead |-> FALSE, room |-> 0, faults |-> {"none"},
     inputs |-> ShardInputs, repairs |-> {}],
    [start |-> MaxEpoch, active |-> TRUE, submitters |-> {},
     repairers |-> {"t1"}, ahead |-> FALSE, room |-> 0, faults |-> {"none"},
     inputs |-> {}, repairs |-> FaultyRepairs \cup SoundRepairs],
    [start |-> 1, active |-> FALSE, submitters |-> {"t1"},
     repairers |-> {"t2"}, ahead |-> FALSE, room |-> 1, faults |-> {"none"},
     inputs |-> {<<"g0", <<1>>>>}, repairs |-> {<<"g1", <<1>>>>}] }

\* The outcomes on which the operation returns true.
ReturnsTrue(out) == out \in {"buffered", "accepted", "repaired"}

Init ==
  /\ env \in Environments
  /\ m_currentEpochNum = env.start
  /\ processing = env.active
  /\ m_stopRecvNewMBSubmission = FALSE
  /\ m_microBlocks = [e \in Epochs |-> {}]
  /\ m_microBlockStateDeltas = [e \in Epochs |-> {}]
  /\ m_stateDeltaFromShards = {}
  /\ accountStoreTemp = {}
  /\ m_MBSubmissionBuffer = << >>
  /\ m_missingMicroBlocks = << >>
  /\ blockStorage = {}
  /\ coinbase = {}
  /\ consensusTasks = 0
  /\ cv_scheduleDSMicroBlockConsensus = 0
  /\ cv_MissingMicroBlock = 0
  /\ m_mutexMicroBlocks = NoThread
  /\ m_mutexMBSubmissionBuffer = NoThread
  /\ th = [t \in Threads |-> Idle]
  /\ outcome = "none"

\* ------------------------------------------------------------------------
\* Collaborators outside the core
\* ------------------------------------------------------------------------
LOOKUP_NODE_MODE == FALSE
NUM_VACUOUS_EPOCHS == 1

\* Mediator::GetIsVacuousEpoch
GetIsVacuousEpoch(epoch) ==
  (epoch + NUM_VACUOUS_EPOCHS) % NUM_FINAL_BLOCK_PER_POW = 0

\* Mediator::CheckWhetherBlockIsLatest(dsBlockNum + 1, epochNum)
CheckWhetherBlockIsLatest(dsBlockNum, epochNum) ==
  dsBlockNum = LatestDSBlockNum + 1 /\ epochNum = m_currentEpochNum

\* VerifyTimestamp: the timestamp is within the timeout of the local clock.
VerifyTimestamp(timestamp, timeout) ==
  LocalClock - timeout <= timestamp /\ timestamp <= LocalClock + timeout

\* std::set<MicroBlock>::emplace: the set is keyed by the block hash.
Emplace(set, id) ==
  IF \E m \in set : Block(m).blockHash = Block(id).blockHash
  THEN set ELSE set \cup {id}

\* The partial maps: a bucket read, and a bucket written.
Bucket(map, key, empty) == IF key \in DOMAIN map THEN map[key] ELSE empty
WithBucket(map, key, value) ==
  [k \in (DOMAIN map) \cup {key} |-> IF k = key THEN value ELSE map[k]]
WithoutBuckets(map, keys) == [k \in (DOMAIN map) \ keys |-> map[k]]

\* CheckMicroBlocks: no hash requested for the current epoch is still absent.
CheckMicroBlocks ==
  \A h \in Bucket(m_missingMicroBlocks, m_currentEpochNum, {}) :
    \E m \in m_microBlocks[m_currentEpochNum] : Block(m).blockHash = h

\* ------------------------------------------------------------------------
\* ProcessStateDelta (lines 121-192): the result and the tables it leaves
\* ------------------------------------------------------------------------
\* A processor that does not compare the digest.
HashMismatchNever(stateDelta, microBlockStateDeltaHash) == FALSE

\* A digest comparison that never matches.
HashMismatchAlways(stateDelta, microBlockStateDeltaHash) == TRUE

\* Lines 159-169: the digest of the delta is not the one the header declares.
HashMismatch(stateDelta, microBlockStateDeltaHash) ==
  Sha256(stateDelta) # microBlockStateDeltaHash

ProcessStateDelta(stateDelta, microBlockStateDeltaHash, microBlockHash, deserOk, serOk) ==
  LET same == [ok |-> FALSE, temp |-> accountStoreTemp,
               fromShards |-> m_stateDeltaFromShards,
               deltas |-> m_microBlockStateDeltas]
      e == m_currentEpochNum
  IN IF LOOKUP_NODE_MODE THEN [same EXCEPT !.ok = TRUE]
     ELSE IF microBlockStateDeltaHash = ZeroHash THEN [same EXCEPT !.ok = TRUE]
     ELSE IF stateDelta = <<>> THEN same
     ELSE IF HashMismatch(stateDelta, microBlockStateDeltaHash) THEN same
     ELSE IF microBlockStateDeltaHash = ZeroHash THEN same
     ELSE IF ~deserOk THEN same
     ELSE IF ~serOk THEN [same EXCEPT !.temp = accountStoreTemp \cup {stateDelta}]
     ELSE [ok |-> TRUE,
           temp |-> accountStoreTemp \cup {stateDelta},
           fromShards |-> accountStoreTemp \cup {stateDelta},
           deltas |->
             [m_microBlockStateDeltas EXCEPT ![e] =
                IF \E p \in @ : p[1] = microBlockHash THEN @
                ELSE @ \cup {<<microBlockHash, stateDelta>>}]]

\* ------------------------------------------------------------------------
\* ProcessMicroblockSubmissionFromShardCore (lines 194-366)
\* ------------------------------------------------------------------------
\* Lines 210-213: a microblock of this shard is already in the epoch's set.
DuplicateShard(microBlocksAtEpoch, shardId) ==
  \E m \in microBlocksAtEpoch : Block(m).header.shardId = shardId

\* A validator whose checks outside the lock let everything through.
VerifyAcceptsAll(mb) == "ok"

\* Lines 220-295: the first check the microblock fails, or "ok".
VerifyOutcome(mb) ==
  LET shardId == mb.header.shardId
      extra_time == IF m_currentEpochNum % NUM_FINAL_BLOCK_PER_POW # 0 THEN 0
                    ELSE EXTRA_TX_DISTRIBUTE_TIME_IN_MS
  IN IF mb.header.myHash # mb.blockHash THEN "hash_mismatch"
     ELSE IF mb.header.version # MICROBLOCK_VERSION THEN "bad_version"
     ELSE IF ~CheckWhetherBlockIsLatest(mb.header.dsBlockNum + 1, mb.header.epochNum)
       THEN "not_latest"
     ELSE IF ~VerifyTimestamp(mb.timestamp,
                              CONSENSUS_OBJECT_TIMEOUT + MICROBLOCK_TIMEOUT + extra_time)
       THEN "bad_timestamp"
     ELSE IF mb.header.minerPubKey \notin DOMAIN publicKeyToshardIdMap
       THEN "unknown_miner"
     ELSE IF publicKeyToshardIdMap[mb.header.minerPubKey] # shardId
       THEN "shard_mismatch"
     ELSE IF ShardHash(shards[shardId + 1]) # mb.header.committeeHash
       THEN "committee_mismatch"
     ELSE IF ~VerifyMicroBlockCoSignature(mb, shardId) THEN "cosig_failed"
     ELSE "ok"

\* A validator that does not look at the flag.
StopGateOpen(stop) == FALSE

\* Line 303: the drain gate.
StopGate(stop) == stop

\* Line 342: the completion check.
CompletionReached(size) == size = NumShards

\* Lines 301-365, the second critical section: the outcome and the state it leaves,
\* given what SaveCoinbase, PutMicroBlock and the account store answer.
CommitResult(id, stateDelta, cbOk, putOk, deserOk, serOk) ==
  LET mb == Block(id)
      e == m_currentEpochNum
      same == [out |-> "stopped", mbs |-> m_microBlocks, cb |-> coinbase,
               store |-> blockStorage, temp |-> accountStoreTemp,
               fromShards |-> m_stateDeltaFromShards,
               deltas |-> m_microBlockStateDeltas, done |-> FALSE]
      cb1 == IF mb.header.shardId = NumShards THEN same
             ELSE [same EXCEPT !.cb = @ \cup {<<mb.B1, mb.B2, mb.header.shardId, e>>}]
      st1 == [cb1 EXCEPT !.store = @ \cup {<<mb.blockHash, mb.header.epochNum,
                                             mb.header.shardId>>}]
      psd == ProcessStateDelta(stateDelta, mb.header.stateDeltaHash, mb.blockHash,
                               deserOk, serOk)
      sd1 == IF GetIsVacuousEpoch(e) THEN st1
             ELSE [st1 EXCEPT !.temp = psd.temp, !.fromShards = psd.fromShards,
                              !.deltas = psd.deltas]
      set1 == Emplace(m_microBlocks[e], id)
  IN IF StopGate(m_stopRecvNewMBSubmission) THEN same
     ELSE IF mb.header.shardId # NumShards /\ ~cbOk
       THEN [same EXCEPT !.out = "coinbase_failed"]
     ELSE IF ~putOk THEN [cb1 EXCEPT !.out = "persist_failed"]
     ELSE IF ~GetIsVacuousEpoch(e) /\ ~psd.ok
       THEN [sd1 EXCEPT !.out = "delta_invalid"]
     ELSE [sd1 EXCEPT !.out = "accepted",
                      !.mbs = [m_microBlocks EXCEPT ![e] = set1],
                      !.done = CompletionReached(Cardinality(set1))]

\* The number of entries the buffer holds.
RECURSIVE BufferedCount(_)
BufferedCount(map) ==
  IF DOMAIN map = {} THEN 0
  ELSE LET k == CHOOSE x \in DOMAIN map : TRUE
       IN Len(map[k]) + BufferedCount(WithoutBuckets(map, {k}))

\* What a step shows: the value it returned or the fate it decided, and the
\* notify_all calls it made on cv_MissingMicroBlock.
Observe(out, notified) ==
  /\ outcome' = out
  /\ cv_MissingMicroBlock' = notified
Silent == Observe("none", 0)

\* The validator returns to its caller: the dispatcher's thread becomes idle; the
\* drain goes on with the next buffered entry, or erases the bucket and unlocks.
CoreReturn(t, out) ==
  LET me == th[t]
      bucket == Bucket(m_MBSubmissionBuffer, me.epochNumber, <<>>)
  IN /\ Observe(out, 0)
     /\ IF me.op = "drain" /\ me.i < Len(bucket)
        THEN /\ th' = [th EXCEPT ![t] = [me EXCEPT !.pc = "dup", !.i = me.i + 1,
                                                   !.mb = bucket[me.i + 1][1],
                                                   !.delta = bucket[me.i + 1][2]]]
             /\ UNCHANGED <<m_MBSubmissionBuffer, m_mutexMBSubmissionBuffer>>
        ELSE IF me.op = "drain"
        THEN /\ th' = [th EXCEPT ![t] = Idle]
             /\ m_MBSubmissionBuffer' =
                  WithoutBuckets(m_MBSubmissionBuffer, {me.epochNumber})
             /\ m_mutexMBSubmissionBuffer' = NoThread
        ELSE /\ th' = [th EXCEPT ![t] = Idle]
             /\ UNCHANGED <<m_MBSubmissionBuffer, m_mutexMBSubmissionBuffer>>

\* Lines 203-218: the first critical section, the duplicate-shard gate.
CoreDupCheck(t) ==
  /\ th[t].pc = "dup"
  /\ m_mutexMicroBlocks = NoThread
  /\ IF DuplicateShard(m_microBlocks[m_currentEpochNum],
                       Block(th[t].mb).header.shardId)
     THEN CoreReturn(t, "duplicate")
     ELSE /\ th' = [th EXCEPT ![t].pc = "verify"]
          /\ Silent
          /\ UNCHANGED <<m_MBSubmissionBuffer, m_mutexMBSubmissionBuffer>>
  /\ UNCHANGED <<env, m_currentEpochNum, processing, tables, signals,
                 m_missingMicroBlocks, m_mutexMicroBlocks>>

\* Lines 220-295: the checks made outside the lock.
CoreVerify(t) ==
  /\ th[t].pc = "verify"
  /\ IF VerifyOutcome(Block(th[t].mb)) = "ok"
     THEN /\ th' = [th EXCEPT ![t].pc = "commit"]
          /\ Silent
          /\ UNCHANGED <<m_MBSubmissionBuffer, m_mutexMBSubmissionBuffer>>
     ELSE CoreReturn(t, VerifyOutcome(Block(th[t].mb)))
  /\ UNCHANGED <<env, m_currentEpochNum, processing, tables, signals,
                 m_missingMicroBlocks, m_mutexMicroBlocks>>

\* Lines 301-365: the second critical section.
CoreCommit(t) ==
  /\ th[t].pc = "commit"
  /\ m_mutexMicroBlocks = NoThread
  /\ \E fault \in env.faults :
     \E r \in {CommitResult(th[t].mb, th[t].delta, fault # "coinbase",
                             fault # "persist", fault # "deserialize",
                             fault # "serialize")} :
          /\ m_microBlocks' = r.mbs
          /\ coinbase' = r.cb
          /\ blockStorage' = r.store
          /\ accountStoreTemp' = r.temp
          /\ m_stateDeltaFromShards' = r.fromShards
          /\ m_microBlockStateDeltas' = r.deltas
          /\ m_stopRecvNewMBSubmission' = (m_stopRecvNewMBSubmission \/ r.done)
          /\ cv_scheduleDSMicroBlockConsensus' =
               IF r.done THEN cv_scheduleDSMicroBlockConsensus + 1
               ELSE cv_scheduleDSMicroBlockConsensus
          /\ consensusTasks' = IF r.done THEN consensusTasks + 1 ELSE consensusTasks
          /\ CoreReturn(t, r.out)
  /\ UNCHANGED <<env, m_currentEpochNum, processing, m_missingMicroBlocks,
                 m_mutexMicroBlocks>>

\* ------------------------------------------------------------------------
\* ProcessMicroblockSubmissionFromShard (lines 390-471)
\* ------------------------------------------------------------------------
\* The epochs the submissions delivered now are for.
MessageEpochs ==
  IF env.ahead THEN Epochs ELSE {e \in Epochs : e <= m_currentEpochNum}

\* A dispatcher that does not ask whether the node is in
\* PROCESS_MICROBLOCKSUBMISSION.
RouteIgnoresState(current, epochNumber, active) ==
  IF current < epochNumber THEN "buffer"
  ELSE IF current = epochNumber THEN "core"
  ELSE "late"

\* A dispatcher that buffers what it should refuse.
RouteLateBuffered(current, epochNumber, active) ==
  IF current = epochNumber /\ active THEN "core" ELSE "buffer"

\* Lines 451-470: where a submission for epochNumber goes.
Route(current, epochNumber, active) ==
  IF current < epochNumber THEN "buffer"
  ELSE IF current = epochNumber THEN (IF active THEN "core" ELSE "buffer")
  ELSE "late"

\* Lines 390-471, one call: the vectors may be empty (lines 438-446); the pair
\* <<microblock, delta>> is microblocks[0], deltas[0].
Dispatch(t, epochNumber, inp, noBlocks, noDeltas) ==
  /\ th[t].pc = "idle"
  /\ t \in env.submitters
  /\ inp \in env.inputs
  /\ LET id == <<inp[1], epochNumber>>
         route == Route(m_currentEpochNum, epochNumber, processing)
     IN IF noBlocks \/ noDeltas
        THEN /\ Observe("empty", 0)
             /\ UNCHANGED <<th, m_MBSubmissionBuffer>>
        ELSE IF route = "late"
        THEN /\ Observe("too_late", 0)
             /\ UNCHANGED <<th, m_MBSubmissionBuffer>>
        ELSE IF route = "core"
        THEN /\ th' = [th EXCEPT ![t] = [Idle EXCEPT
                          !.pc = "dup", !.op = "shard",
                          !.epochNumber = epochNumber, !.mb = id, !.delta = inp[2]]]
             /\ Silent
             /\ UNCHANGED m_MBSubmissionBuffer
        ELSE /\ m_mutexMBSubmissionBuffer = NoThread
             /\ BufferedCount(m_MBSubmissionBuffer) < env.room
             /\ m_MBSubmissionBuffer' =
                  WithBucket(m_MBSubmissionBuffer, epochNumber,
                             Append(Bucket(m_MBSubmissionBuffer, epochNumber, <<>>),
                                    <<id, inp[2]>>))
             /\ Observe("buffered", 0)
             /\ UNCHANGED th
  /\ UNCHANGED <<env, m_currentEpochNum, processing, tables, signals,
                 m_missingMicroBlocks, m_mutexMicroBlocks,
                 m_mutexMBSubmissionBuffer>>

ProcessMicroblockSubmissionFromShard(t) ==
  \E epochNumber \in MessageEpochs, inp \in ShardInputs, noBlocks, noDeltas \in BOOLEAN :
    Dispatch(t, epochNumber, inp, noBlocks, noDeltas)

\* ------------------------------------------------------------------------
\* CommitMBSubmissionMsgBuffer (lines 368-388)
\* ------------------------------------------------------------------------
\* A drain that erases no bucket of an epoch gone by.
StaleBucketsKept(buffer, current) == {}

\* Lines 375-376: the buckets erased without being looked into.
StaleBuckets(buffer, current) == {k \in DOMAIN buffer : k < current}

CommitMBSubmissionMsgBuffer(t) ==
  /\ th[t].pc = "idle"
  /\ t \in env.submitters
  /\ m_mutexMBSubmissionBuffer = NoThread
  /\ LET older == StaleBuckets(m_MBSubmissionBuffer, m_currentEpochNum)
         kept == WithoutBuckets(m_MBSubmissionBuffer, older)
         e == m_currentEpochNum
     IN /\ m_MBSubmissionBuffer' = kept
        /\ IF e \in DOMAIN kept
           THEN /\ m_mutexMBSubmissionBuffer' = t
                /\ th' = [th EXCEPT ![t] = [Idle EXCEPT
                             !.pc = "dup", !.op = "drain", !.epochNumber = e,
                             !.i = 1, !.mb = kept[e][1][1], !.delta = kept[e][1][2]]]
                /\ Silent
           ELSE /\ m_mutexMBSubmissionBuffer' = NoThread
                /\ Observe("drained", 0)
                /\ UNCHANGED th
  /\ UNCHANGED <<env, m_currentEpochNum, processing, tables, signals,
                 m_missingMicroBlocks, m_mutexMicroBlocks>>

\* ------------------------------------------------------------------------
\* ProcessMissingMicroblockSubmission (lines 531-695)
\* ------------------------------------------------------------------------
\* Lines 572-599: the miner key belongs to the committee the shard id names.
MissingAuthority(mb) ==
  IF mb.header.shardId = NumShards
  THEN mb.header.minerPubKey \in Range(DSCommittee)
  ELSE /\ mb.header.minerPubKey \in DOMAIN publicKeyToshardIdMap
       /\ publicKeyToshardIdMap[mb.header.minerPubKey] = mb.header.shardId

\* Lines 601-608: the co-signature is checked unless the shard is the node's own.
MissingCoSigOk(mb) ==
  mb.header.shardId = MyShardId
    \/ VerifyMicroBlockCoSignature(mb, mb.header.shardId)

\* A membership check that finds every hash.
InMissingListAlways(epochNumber, mb) == TRUE

\* Lines 610-625: the block hash is in the missing list of the message's epoch.
InMissingList(epochNumber, mb) ==
  mb.blockHash \in Bucket(m_missingMicroBlocks, epochNumber, {})

\* Lines 627-642: a microblock of this block hash is already stored.
AlreadyHave(epochNumber, mb) ==
  \E m \in m_microBlocks[epochNumber] : Block(m).blockHash = mb.blockHash

\* Lines 554-683, one item of the loop: its outcome and the state it leaves.
MissingItemResult(epochNumber, id, stateDelta, cbOk, putOk, deserOk, serOk) ==
  LET mb == Block(id)
      same == [out |-> "aborted_not_latest", mbs |-> m_microBlocks, cb |-> coinbase,
               store |-> blockStorage, temp |-> accountStoreTemp,
               fromShards |-> m_stateDeltaFromShards,
               deltas |-> m_microBlockStateDeltas,
               missing |-> m_missingMicroBlocks]
      looked == [same EXCEPT !.missing =
                   WithBucket(m_missingMicroBlocks, epochNumber,
                              Bucket(m_missingMicroBlocks, epochNumber, {}))]
      cb1 == IF mb.header.shardId = NumShards THEN looked
             ELSE [looked EXCEPT !.cb = @ \cup {<<mb.B1, mb.B2, mb.header.shardId,
                                                  m_currentEpochNum>>}]
      psd == ProcessStateDelta(stateDelta, mb.header.stateDeltaHash, mb.blockHash,
                               deserOk, serOk)
      sd1 == IF GetIsVacuousEpoch(epochNumber) THEN cb1
             ELSE [cb1 EXCEPT !.temp = psd.temp, !.fromShards = psd.fromShards,
                              !.deltas = psd.deltas]
      st1 == [sd1 EXCEPT !.store = @ \cup {<<mb.blockHash, mb.header.epochNum,
                                             mb.header.shardId>>}]
  IN IF ~CheckWhetherBlockIsLatest(mb.header.dsBlockNum + 1, mb.header.epochNum)
       THEN same
     ELSE IF ~MissingAuthority(mb) THEN [same EXCEPT !.out = "skip_authority"]
     ELSE IF ~MissingCoSigOk(mb) THEN [same EXCEPT !.out = "skip_cosig"]
     ELSE IF ~InMissingList(epochNumber, mb)
       THEN [looked EXCEPT !.out = "skip_not_missing"]
     ELSE IF AlreadyHave(epochNumber, mb) THEN [looked EXCEPT !.out = "skip_have"]
     ELSE IF mb.header.shardId # NumShards /\ ~cbOk
       THEN [looked EXCEPT !.out = "skip_coinbase"]
     ELSE IF ~GetIsVacuousEpoch(epochNumber) /\ ~psd.ok
       THEN [sd1 EXCEPT !.out = "skip_delta"]
     ELSE IF ~putOk THEN [sd1 EXCEPT !.out = "aborted_persist"]
     ELSE [st1 EXCEPT !.out = "inserted",
                      !.mbs = [m_microBlocks EXCEPT ![epochNumber] = Emplace(@, id)]]

\* A lock that outlives its scope.
HeldBeyondScope(t, inLoop) == t

\* Lines 541-684, the scope of lock_guard<mutex> g(m_mutexMicroBlocks): the thread
\* holds the lock while it is in the loop, and nobody holds it for the thread once
\* it has left the scope.
HeldInLoop(t, inLoop) == IF inLoop THEN t ELSE NoThread

\* Lines 541-552: take the lock and compare the sizes of the two vectors; an empty
\* batch leaves the loop, and the lock, at once.
MissingStart(t) ==
  /\ th[t].pc = "idle"
  /\ t \in env.repairers
  /\ m_mutexMicroBlocks = NoThread
  /\ \E epochNumber \in Epochs, nBlocks, nDeltas \in 0 .. MaxBatch :
       IF nBlocks # nDeltas
       THEN /\ Observe("size_mismatch", 0)
            /\ UNCHANGED <<th, m_mutexMicroBlocks>>
       ELSE /\ th' = [th EXCEPT ![t] = [Idle EXCEPT
                         !.pc = IF nBlocks = 0 THEN "check" ELSE "missing",
                         !.op = "missing",
                         !.epochNumber = epochNumber, !.n = nBlocks]]
            /\ m_mutexMicroBlocks' = HeldInLoop(t, nBlocks # 0)
            /\ Silent
  /\ UNCHANGED <<env, m_currentEpochNum, processing, tables, signals,
                 m_MBSubmissionBuffer, m_missingMicroBlocks,
                 m_mutexMBSubmissionBuffer>>

\* An item's failure that ends every batch.
AbortsBatchOnAnyFailure(out) == out # "inserted"

\* A loop that no failure ends.
AbortsBatchNever(out) == FALSE

\* Lines 555-562 and 668-674: the failures on which the loop returns false.
AbortsBatch(out) == out \in {"aborted_not_latest", "aborted_persist"}

\* Lines 554-684: one iteration of the loop, on the next item of the batch; the
\* lock is released by an abort, or when the last item is done.
MissingItemOn(t, inp, hdrEpoch, fault) ==
  /\ th[t].pc = "missing"
  /\ m_mutexMicroBlocks = t
  /\ inp \in env.repairs
  /\ fault \in env.faults
  /\ \E r \in {MissingItemResult(th[t].epochNumber, <<inp[1], hdrEpoch>>, inp[2],
                                  fault # "coinbase", fault # "persist",
                                  fault # "deserialize", fault # "serialize")} :
          /\ m_microBlocks' = r.mbs
          /\ coinbase' = r.cb
          /\ blockStorage' = r.store
          /\ accountStoreTemp' = r.temp
          /\ m_stateDeltaFromShards' = r.fromShards
          /\ m_microBlockStateDeltas' = r.deltas
          /\ m_missingMicroBlocks' = r.missing
          /\ Observe(r.out, 0)
          /\ IF AbortsBatch(r.out)
             THEN /\ th' = [th EXCEPT ![t] = Idle]
                  /\ m_mutexMicroBlocks' = HeldInLoop(t, FALSE)
             ELSE IF th[t].i + 1 = th[t].n
             THEN /\ th' = [th EXCEPT ![t].pc = "check", ![t].i = @ + 1]
                  /\ m_mutexMicroBlocks' = HeldInLoop(t, FALSE)
             ELSE /\ th' = [th EXCEPT ![t].i = @ + 1]
                  /\ UNCHANGED m_mutexMicroBlocks
  /\ UNCHANGED <<env, m_currentEpochNum, processing, signals,
                 m_MBSubmissionBuffer, m_mutexMBSubmissionBuffer>>

MissingItem(t) ==
  \E inp \in RepairInputs \cup FaultyRepairs \cup SoundRepairs,
     hdrEpoch \in Epochs, fault \in Faults :
    MissingItemOn(t, inp, hdrEpoch, fault)

\* Lines 686-694: the gap audit and the notification.
\* A verdict that does not look at the gaps.
MissingVerdictIgnoresGaps(complete) == "repaired"

\* Lines 686-694: what the operation returns once the loop is done.
MissingVerdict(complete) == IF complete THEN "repaired" ELSE "still_missing"

MissingCheck(t) ==
  /\ th[t].pc = "check"
  /\ Observe(MissingVerdict(CheckMicroBlocks),
             IF MissingVerdict(CheckMicroBlocks) = "repaired" THEN 1 ELSE 0)
  /\ th' = [th EXCEPT ![t] = Idle]
  /\ UNCHANGED <<env, m_currentEpochNum, processing, tables, signals,
                 m_MBSubmissionBuffer, m_missingMicroBlocks, m_mutexMicroBlocks,
                 m_mutexMBSubmissionBuffer>>

\* ------------------------------------------------------------------------
\* The components around the core
\* ------------------------------------------------------------------------
\* The epoch manager: the epoch advances, the finished epoch's buckets are
\* destroyed, the final block takes the aggregated delta, and the submission flag
\* is reset. The ledgers' records of the finished epoch leave the model: the core
\* writes them and never reads them.
AdvanceEpoch ==
  /\ m_currentEpochNum < MaxEpoch
  /\ m_mutexMicroBlocks = NoThread
  /\ m_currentEpochNum' = m_currentEpochNum + 1
  /\ m_stopRecvNewMBSubmission' = FALSE
  /\ processing' = FALSE
  /\ m_microBlocks' = [m_microBlocks EXCEPT ![m_currentEpochNum] = {}]
  /\ m_microBlockStateDeltas' =
       [m_microBlockStateDeltas EXCEPT ![m_currentEpochNum] = {}]
  /\ m_missingMicroBlocks' =
       WithoutBuckets(m_missingMicroBlocks, {m_currentEpochNum})
  /\ m_stateDeltaFromShards' = {}
  /\ accountStoreTemp' = {}
  /\ blockStorage' = {k \in blockStorage : k[2] > m_currentEpochNum}
  /\ coinbase' = {c \in coinbase : c[4] > m_currentEpochNum}
  /\ consensusTasks' = 0
  /\ cv_scheduleDSMicroBlockConsensus' = 0
  /\ Silent
  /\ UNCHANGED <<env, m_MBSubmissionBuffer, m_mutexMicroBlocks,
                 m_mutexMBSubmissionBuffer, th>>

\* The node enters the state PROCESS_MICROBLOCKSUBMISSION of the epoch.
SetState ==
  /\ ~processing
  /\ processing' = TRUE
  /\ Silent
  /\ UNCHANGED <<env, m_currentEpochNum, tables, signals, m_MBSubmissionBuffer,
                 m_missingMicroBlocks, m_mutexMicroBlocks,
                 m_mutexMBSubmissionBuffer, th>>

\* The hashes the repair-request path may record as missing in an epoch.
MissingRequests(epoch) ==
  {S \in SUBSET {Block(<<inp[1], epoch>>).blockHash : inp \in env.repairs} :
     S # {} /\ Cardinality(S) <= MaxMissing}

\* The repair-request path records the block hashes it misses for the current epoch.
RequestMissing ==
  /\ Bucket(m_missingMicroBlocks, m_currentEpochNum, {}) = {}
  /\ \E S \in MissingRequests(m_currentEpochNum) :
       m_missingMicroBlocks' = WithBucket(m_missingMicroBlocks, m_currentEpochNum, S)
  /\ Silent
  /\ UNCHANGED <<env, m_currentEpochNum, processing, tables, signals,
                 m_MBSubmissionBuffer, m_mutexMicroBlocks,
                 m_mutexMBSubmissionBuffer, th>>

Next ==
  \/ \E t \in Threads :
       \/ ProcessMicroblockSubmissionFromShard(t)
       \/ CoreDupCheck(t)
       \/ CoreVerify(t)
       \/ CoreCommit(t)
       \/ CommitMBSubmissionMsgBuffer(t)
       \/ MissingStart(t)
       \/ MissingItem(t)
       \/ MissingCheck(t)
  \/ AdvanceEpoch
  \/ SetState
  \/ RequestMissing

Spec == Init /\ [][Next]_vars

\* ------------------------------------------------------------------------
\* Properties of the intake
\* ------------------------------------------------------------------------
\* microBlocks[currentEpoch]
microBlocksAtEpoch == m_microBlocks[m_currentEpochNum]

\* The shards that have a microblock in a set.
ShardsIn(set) == {Block(m).header.shardId : m \in set}

\* C1: in every reachable state, each epoch's set holds at most one microblock of
\* each shard id, whatever the interleaving of validators and repair batches.
C1_OnePerShard ==
  \A e \in Epochs : \A m1, m2 \in m_microBlocks[e] :
    Block(m1).header.shardId = Block(m2).header.shardId => m1 = m2

\* C1: two validators in flight for shard 0, with different block hashes, both
\* passed the duplicate-shard gate and both inserted.
C1_RaceInserted ==
  {<<"g0", m_currentEpochNum>>, <<"alt0", m_currentEpochNum>>}
    \subseteq microBlocksAtEpoch

\* C2 as stated: once the flag is set, and until the epoch manager resets it, no
\* step of the core changes microBlocks[currentEpoch], the repair path included.
C2_NothingInsertedAfterStop ==
  [][(m_stopRecvNewMBSubmission /\ m_currentEpochNum' = m_currentEpochNum)
       => m_microBlocks'[m_currentEpochNum] = microBlocksAtEpoch]_vars

\* C2 amended: with the flag set, the second critical section of the validator,
\* called by the dispatcher or by the buffer drain, inserts no microblock and
\* writes no ledger; it returns false at the drain gate.
C2_ValidatorStopsAtGate ==
  [][\A t \in Threads :
       (m_stopRecvNewMBSubmission /\ CoreCommit(t))
         => /\ UNCHANGED tables
            /\ outcome' = "stopped"
            /\ ~ReturnsTrue(outcome')]_vars

\* C2: a validator, from the dispatcher and from the drain, was refused at the gate.
C2_RefusedAtGate ==
  /\ m_stopRecvNewMBSubmission
  /\ outcome = "stopped"
  /\ Cardinality(microBlocksAtEpoch) >= NumShards

\* C3: the task is spawned exactly by the step whose insertion makes
\* |microBlocks[currentEpoch]| equal |shards|, in the step that sets the flag, and
\* never a second time in the epoch.
C3_SpawnedByCompletingInsertion ==
  [][(m_currentEpochNum' = m_currentEpochNum)
       => /\ consensusTasks' <= 1
          /\ (consensusTasks' = consensusTasks + 1)
               <=> (/\ Cardinality(m_microBlocks'[m_currentEpochNum]) = NumShards
                    /\ m_microBlocks'[m_currentEpochNum] # microBlocksAtEpoch)
          /\ (consensusTasks' = consensusTasks + 1)
               <=> (m_stopRecvNewMBSubmission' /\ ~m_stopRecvNewMBSubmission)]_vars

\* C3, the part that holds: at most one task per epoch, spawned only by a second
\* critical section of the validator that sets the flag and notifies the
\* consensus-schedule waiter with |microBlocks[currentEpoch]| = |shards|.
C3_SpawnedAtMostOnce ==
  [][(m_currentEpochNum' = m_currentEpochNum)
       => /\ consensusTasks' <= 1
          /\ consensusTasks' >= consensusTasks
          /\ (consensusTasks' = consensusTasks + 1)
               <=> (m_stopRecvNewMBSubmission' /\ ~m_stopRecvNewMBSubmission)
          /\ (consensusTasks' = consensusTasks + 1)
               => /\ \E t \in Threads : CoreCommit(t)
                  /\ Cardinality(m_microBlocks'[m_currentEpochNum]) = NumShards
                  /\ cv_scheduleDSMicroBlockConsensus' =
                       cv_scheduleDSMicroBlockConsensus + 1]_vars

\* C4: whenever the completion has been signalled, every shard has a microblock in
\* microBlocks[currentEpoch].
C4_CompletionMeansEveryShard ==
  (m_stopRecvNewMBSubmission \/ consensusTasks > 0
     \/ cv_scheduleDSMicroBlockConsensus > 0)
    => ShardIds \subseteq ShardsIn(microBlocksAtEpoch)

\* C5: outside a critical section of M_microBlocks, a set of |shards| microblocks
\* means the flag is set.
C5_FullMeansStopped ==
  (m_mutexMicroBlocks = NoThread /\ Cardinality(microBlocksAtEpoch) = NumShards)
    => m_stopRecvNewMBSubmission

\* C6: every stored microblock has its own hash, the current version and the hash
\* of the committee of its shard, whichever path stored it.
C6_StoredAreWellFormed ==
  \A e \in Epochs : \A m \in m_microBlocks[e] :
    /\ Block(m).header.myHash = Block(m).blockHash
    /\ Block(m).header.version = MICROBLOCK_VERSION
    /\ Block(m).header.committeeHash =
         ShardHash(CommitteeOf(Block(m).header.shardId))

\* C7: every stored microblock has a round-2 bitmap as long as the committee of its
\* shard, with exactly the quorum of bits set.
C7_StoredHaveQuorum ==
  \A e \in Epochs : \A m \in m_microBlocks[e] :
    /\ Len(Block(m).B2) = Len(CommitteeOf(Block(m).header.shardId))
    /\ CountBits(Block(m).B2) = NumForConsensus(Len(Block(m).B2))

\* C8: |microBlocks[currentEpoch]| never exceeds |shards| + 1.
C8_SizeBounded ==
  Cardinality(microBlocksAtEpoch) <= NumShards + 1

\* C9, as the safety property its liveness needs: the validator sets the flag and
\* spawns the task in the critical section that accepts a microblock, and the size
\* of the set never decreases in an epoch, so once every shard's valid microblock
\* is accepted the flag is set and the task spawned.
C9_AllAcceptedMeansCompleted ==
  (\A s \in ShardIds :
     \E m \in microBlocksAtEpoch :
       Block(m).header.shardId = s /\ VerifyOutcome(Block(m)) = "ok")
    => (m_stopRecvNewMBSubmission /\ consensusTasks >= 1)

\* C10: a submission for an epoch before the current one returns false, changes
\* no table, buffer, flag or ledger, and does not enter the validator.
C10_StaleChangesNothing ==
  [][\A t \in {u \in env.submitters : th[u].pc = "idle"},
        epochNumber \in {e \in Epochs : e < m_currentEpochNum},
        inp \in env.inputs, noBlocks, noDeltas \in BOOLEAN :
       (epochNumber < m_currentEpochNum
          /\ Dispatch(t, epochNumber, inp, noBlocks, noDeltas))
         => /\ ~ReturnsTrue(outcome')
            /\ UNCHANGED <<tables, signals, m_MBSubmissionBuffer, th,
                           m_missingMicroBlocks, m_currentEpochNum, processing>>]_vars

\* C10: a stale submission has just been refused while the tables hold microblocks.
C10_StaleRefused ==
  /\ outcome = "too_late"
  /\ microBlocksAtEpoch # {}

\* A submission for epochNumber is not for now: the epoch is ahead, or it is the
\* current one and the node is not in PROCESS_MICROBLOCKSUBMISSION.
NotForNow(epochNumber) ==
  \/ m_currentEpochNum < epochNumber
  \/ (m_currentEpochNum = epochNumber /\ ~processing)

\* C11: a non-empty submission that is not for now appends exactly its pair at the
\* end of mbSubmissionBuffer[epoch] and returns true; the other buckets, the
\* tables, the flag and the ledgers are unchanged and the validator is not run.
C11_BufferedAppendsOnly ==
  [][\A t \in Threads, epochNumber \in Epochs, inp \in ShardInputs :
       (NotForNow(epochNumber) /\ Dispatch(t, epochNumber, inp, FALSE, FALSE))
         => /\ outcome' = "buffered"
            /\ ReturnsTrue(outcome')
            /\ DOMAIN m_MBSubmissionBuffer' =
                 (DOMAIN m_MBSubmissionBuffer) \cup {epochNumber}
            /\ m_MBSubmissionBuffer'[epochNumber] =
                 Append(Bucket(m_MBSubmissionBuffer, epochNumber, <<>>),
                        <<<<inp[1], epochNumber>>, inp[2]>>)
            /\ \A k \in (DOMAIN m_MBSubmissionBuffer) \ {epochNumber} :
                 m_MBSubmissionBuffer'[k] = m_MBSubmissionBuffer[k]
            /\ UNCHANGED <<tables, signals, th, m_missingMicroBlocks,
                           m_currentEpochNum, processing>>]_vars

\* C11: a submission has just been appended behind an entry buffered before it,
\* while another bucket holds an entry of its own.
C11_AppendedBehind ==
  /\ outcome = "buffered"
  /\ \E k \in DOMAIN m_MBSubmissionBuffer : Len(m_MBSubmissionBuffer[k]) = 2

\* C11: a submission has just been buffered in one bucket beside another bucket.
C11_BufferedBeside ==
  /\ outcome = "buffered"
  /\ Cardinality(DOMAIN m_MBSubmissionBuffer) = 2

\* The bucket a draining thread walks, and the entry it has handed to the validator.
DrainBucket(t) == m_MBSubmissionBuffer[th[t].epochNumber]
Draining(t) == th[t].op = "drain"

\* C12, the state of a drain in progress: it holds the buffer mutex, no bucket of
\* an earlier epoch is left, and the entry in the validator is the i-th of the
\* bucket whose key the drain matched against currentEpoch.
C12_DrainInOrder ==
  \A t \in Threads :
    Draining(t) =>
      /\ m_mutexMBSubmissionBuffer = t
      /\ th[t].pc \in {"dup", "verify", "commit"}
      /\ th[t].epochNumber \in DOMAIN m_MBSubmissionBuffer
      /\ \A k \in DOMAIN m_MBSubmissionBuffer : k >= th[t].epochNumber
      /\ th[t].i \in 1 .. Len(DrainBucket(t))
      /\ DrainBucket(t)[th[t].i] = <<th[t].mb, th[t].delta>>

\* C12, the steps of a drain: the call erases the buckets of earlier epochs with
\* no change to any table, keeps the later ones as they are, and hands the first
\* entry of the current bucket to the validator; the validator's return hands
\* over the next entry, and after the last one the bucket is erased; nothing
\* else touches the buffer meanwhile, and the bucket drained is the current
\* epoch's as long as the epoch stays.
C12_DrainSteps ==
  \A t \in Threads :
    /\ CommitMBSubmissionMsgBuffer(t) =>
         /\ DOMAIN m_MBSubmissionBuffer' =
              {k \in DOMAIN m_MBSubmissionBuffer : k >= m_currentEpochNum}
         /\ \A k \in DOMAIN m_MBSubmissionBuffer' :
              m_MBSubmissionBuffer'[k] = m_MBSubmissionBuffer[k]
         /\ UNCHANGED <<tables, signals>>
         /\ IF m_currentEpochNum \in DOMAIN m_MBSubmissionBuffer
            THEN /\ Draining(t)'
                 /\ th'[t].epochNumber = m_currentEpochNum
                 /\ th'[t].i = 1
                 /\ th'[t].pc = "dup"
            ELSE /\ UNCHANGED th
                 /\ m_mutexMBSubmissionBuffer' = NoThread
    /\ (Draining(t) /\ th'[t] # th[t]) =>
         \/ /\ Draining(t)'
            /\ th'[t].i = th[t].i
            /\ th'[t].epochNumber = th[t].epochNumber
            /\ th[t].pc # "commit"
            /\ UNCHANGED <<m_MBSubmissionBuffer, tables, signals>>
         \/ /\ Draining(t)'
            /\ th'[t].i = th[t].i + 1
            /\ th'[t].epochNumber = th[t].epochNumber
            /\ th'[t].pc = "dup"
            /\ UNCHANGED m_MBSubmissionBuffer
         \/ /\ th'[t] = Idle
            /\ th[t].i = Len(DrainBucket(t))
            /\ m_MBSubmissionBuffer' =
                 WithoutBuckets(m_MBSubmissionBuffer, {th[t].epochNumber})
            /\ m_mutexMBSubmissionBuffer' = NoThread
    /\ (Draining(t) /\ th'[t] = th[t]) => UNCHANGED m_MBSubmissionBuffer
    /\ (Draining(t)' /\ m_currentEpochNum' = m_currentEpochNum
          /\ (Draining(t) => th[t].epochNumber = m_currentEpochNum))
         => th'[t].epochNumber = m_currentEpochNum'

\* C12: a drain in progress is always in the state C12_DrainInOrder, and every
\* step taken during it is one of C12_DrainSteps.
C12_DrainValidatesCurrentBucketOnce ==
  []C12_DrainInOrder /\ [][C12_DrainSteps]_vars

\* C12: a drain has handed the second entry of the current epoch's bucket to the
\* validator, after the first one was accepted.
C12_SecondEntryAfterFirst ==
  \E t \in Threads :
    /\ Draining(t)
    /\ th[t].epochNumber = m_currentEpochNum
    /\ th[t].i = 2
    /\ DrainBucket(t)[1][1] \in microBlocksAtEpoch

\* The window of the timestamp check in the current epoch.
TimestampWindow ==
  CONSENSUS_OBJECT_TIMEOUT + MICROBLOCK_TIMEOUT
    + (IF m_currentEpochNum % NUM_FINAL_BLOCK_PER_POW = 0
       THEN EXTRA_TX_DISTRIBUTE_TIME_IN_MS ELSE 0)

\* A microblock that breaks, in the current state, one of the rules checked
\* between the duplicate-shard gate and the drain gate: self-hash, version,
\* freshness, timestamp, authority, committee hash, co-signature.
Defective(mb) ==
  \/ mb.header.myHash # mb.blockHash
  \/ mb.header.version # MICROBLOCK_VERSION
  \/ ~CheckWhetherBlockIsLatest(mb.header.dsBlockNum + 1, mb.header.epochNum)
  \/ ~VerifyTimestamp(mb.timestamp, TimestampWindow)
  \/ mb.header.minerPubKey \notin DOMAIN publicKeyToshardIdMap
  \/ publicKeyToshardIdMap[mb.header.minerPubKey] # mb.header.shardId
  \/ ShardHash(CommitteeOf(mb.header.shardId)) # mb.header.committeeHash
  \/ ~VerifyMicroBlockCoSignature(mb, mb.header.shardId)

\* The validator has refused the submission of thread t in this step: it
\* returned false, wrote nothing, and the submission goes no further.
Refused(t) ==
  /\ UNCHANGED <<tables, signals>>
  /\ outcome' # "none"
  /\ ~ReturnsTrue(outcome')
  /\ \/ th'[t] = Idle
     \/ (Draining(t) /\ th'[t].i = th[t].i + 1 /\ th'[t].pc = "dup")

\* C13: a submission refused at the duplicate-shard gate, at one of the checks
\* made outside the lock, or at the drain gate makes the validator return false
\* with no persistence write, no coinbase record, no state delta applied and no
\* insertion; the steps before the refusal write nothing either.
C13_EarlyRejectionWritesNothing ==
  [][\A t \in Threads :
       /\ (CoreDupCheck(t) \/ CoreVerify(t)) => UNCHANGED <<tables, signals>>
       /\ (CoreDupCheck(t)
             /\ DuplicateShard(microBlocksAtEpoch, Block(th[t].mb).header.shardId))
            => Refused(t)
       /\ (CoreVerify(t) /\ Defective(Block(th[t].mb))) => Refused(t)
       /\ (CoreCommit(t) /\ m_stopRecvNewMBSubmission) => Refused(t)]_vars

\* C13: a submission with a tampered CS2 has just been refused while the epoch's
\* set and the ledgers hold an accepted microblock.
C13_BadCosigRefused ==
  /\ outcome = "cosig_failed"
  /\ microBlocksAtEpoch # {}
  /\ blockStorage # {}
  /\ coinbase # {}

\* The state delta of thread t's submission fails the state-delta processor in
\* the current, non-vacuous epoch: the header's stateDeltaHash is not zero and the
\* delta is empty or of another digest.
DeltaFails(t) ==
  /\ ~GetIsVacuousEpoch(m_currentEpochNum)
  /\ Block(th[t].mb).header.stateDeltaHash # ZeroHash
  /\ \/ th[t].delta = <<>>
     \/ Sha256(th[t].delta) # Block(th[t].mb).header.stateDeltaHash

\* C14: when the second critical section refuses a submission for its state
\* delta, the microblock is not added and no coinbase record and no persisted
\* microblock are left behind.
C14_DeltaRejectionLeavesNothing ==
  [][\A t \in Threads :
       (CoreCommit(t) /\ ~m_stopRecvNewMBSubmission /\ DeltaFails(t))
         => /\ ~ReturnsTrue(outcome')
            /\ UNCHANGED <<m_microBlocks, coinbase, blockStorage>>]_vars

\* C14: a submission has just been refused for its state delta, and persistence
\* and the coinbase ledger hold a record of a microblock that is in no set.
C14_RecordsOfRefusedLeft ==
  /\ outcome = "delta_invalid"
  /\ \E k \in blockStorage :
       \A m \in microBlocksAtEpoch : Block(m).blockHash # k[1]
  /\ \E c \in coinbase :
       \A m \in microBlocksAtEpoch : Block(m).header.shardId # c[3]

\* The second critical section accepts the submission of thread t in a
\* non-vacuous epoch.
AcceptsWithDelta(t) ==
  /\ CoreCommit(t)
  /\ outcome' = "accepted"
  /\ ~GetIsVacuousEpoch(m_currentEpochNum)

\* C15 as stated: a microblock accepted in a non-vacuous epoch has
\* sha256(delta) = header.stateDeltaHash, and an empty delta when the header's
\* stateDeltaHash is zero.
C15_AcceptedDeltaMatchesOrEmpty ==
  [][\A t \in Threads :
       AcceptsWithDelta(t) =>
         IF Block(th[t].mb).header.stateDeltaHash = ZeroHash
         THEN th[t].delta = <<>>
         ELSE Sha256(th[t].delta) = Block(th[t].mb).header.stateDeltaHash]_vars

\* C15 amended: a microblock accepted in a non-vacuous epoch with a non-zero
\* stateDeltaHash has a non-empty delta of that digest, which is then recorded
\* under its block hash; with a zero stateDeltaHash the delta, whatever it is, is
\* neither applied nor recorded.
C15_AcceptedDeltaMatchesOrIgnored ==
  [][\A t \in Threads :
       AcceptsWithDelta(t) =>
         IF Block(th[t].mb).header.stateDeltaHash = ZeroHash
         THEN UNCHANGED <<m_microBlockStateDeltas, accountStoreTemp,
                          m_stateDeltaFromShards>>
         ELSE /\ th[t].delta # <<>>
              /\ Sha256(th[t].delta) = Block(th[t].mb).header.stateDeltaHash
              /\ \E p \in m_microBlockStateDeltas'[m_currentEpochNum] :
                   p[1] = Block(th[t].mb).blockHash
              /\ th[t].delta \in accountStoreTemp']_vars

\* C15: in a non-vacuous epoch a microblock of zero stateDeltaHash has just been
\* accepted beside one whose delta is recorded, and no delta is recorded for it.
C15_ZeroHashAccepted ==
  /\ outcome = "accepted"
  /\ ~GetIsVacuousEpoch(m_currentEpochNum)
  /\ <<"zerodelta", m_currentEpochNum>> \in microBlocksAtEpoch
  /\ m_microBlockStateDeltas[m_currentEpochNum] # {}
  /\ \A p \in m_microBlockStateDeltas[m_currentEpochNum] :
       p[1] # Block(<<"zerodelta", m_currentEpochNum>>).blockHash
\* The checks of one repair item, all passed: freshness, miner key, CS2, missing
\* list, not yet stored, coinbase record, state delta, persistence.
PassesOwnChecks(epochNumber, id, stateDelta, fault) ==
  /\ CheckWhetherBlockIsLatest(Block(id).header.dsBlockNum + 1,
                               Block(id).header.epochNum)
  /\ MissingAuthority(Block(id))
  /\ MissingCoSigOk(Block(id))
  /\ InMissingList(epochNumber, Block(id))
  /\ ~AlreadyHave(epochNumber, Block(id))
  /\ fault = "none"
  /\ \/ GetIsVacuousEpoch(epochNumber)
     \/ ProcessStateDelta(stateDelta, Block(id).header.stateDeltaHash,
                          Block(id).blockHash, TRUE, TRUE).ok

\* The per-item failures of the repair path that are not freshness or persistence.
SkipOutcomes == {"skip_authority", "skip_cosig", "skip_not_missing", "skip_have",
                 "skip_coinbase", "skip_delta"}

\* C16: in a repair batch, an item failing its miner-key, CS2, missing-list,
\* already-stored, coinbase or state-delta check is skipped alone: the loop goes
\* on to the next item with microBlocks untouched, and an item at any position
\* that passes all its own checks is inserted into microBlocks[epoch], whatever
\* happened to the items before it.
C16_PassingItemInserted ==
  \A t \in {u \in Threads : th[u].pc = "missing"}, inp \in env.repairs,
     hdrEpoch \in Epochs :
    PassesOwnChecks(th[t].epochNumber, <<inp[1], hdrEpoch>>, inp[2], "none")
      => LET r == MissingItemResult(th[t].epochNumber, <<inp[1], hdrEpoch>>,
                                    inp[2], TRUE, TRUE, TRUE, TRUE)
         IN /\ r.out = "inserted"
            /\ <<inp[1], hdrEpoch>> \in r.mbs[th[t].epochNumber]

C16_LoopStep ==
  \A t \in {u \in Threads : th[u].pc = "missing" /\ th'[u] # th[u]} :
    /\ outcome' \in SkipOutcomes
         => /\ th'[t].pc = IF th[t].i + 1 = th[t].n THEN "check" ELSE "missing"
            /\ th'[t].i = th[t].i + 1
            /\ m_microBlocks' = m_microBlocks
    /\ outcome' = "inserted"
         => /\ th'[t].i = th[t].i + 1
            /\ \E inp \in env.repairs, hdrEpoch \in Epochs :
                 /\ PassesOwnChecks(th[t].epochNumber, <<inp[1], hdrEpoch>>,
                                    inp[2], "none")
                 /\ m_microBlocks' =
                      [m_microBlocks EXCEPT ![th[t].epochNumber] =
                                              @ \cup {<<inp[1], hdrEpoch>>}]

C16_SkipsOnlyTheItem == []C16_PassingItemInserted /\ [][C16_LoopStep]_vars

\* Witness for C16: a batch of two whose second item has just been inserted while
\* its first item was skipped (the epoch holds that one microblock only).
C16_InsertedAfterSkip ==
  \E t \in Threads :
    /\ th[t].pc = "check" /\ th[t].op = "missing"
    /\ th[t].n = 2 /\ th[t].i = 2
    /\ outcome = "inserted"
    /\ Cardinality(m_microBlocks[th[t].epochNumber]) = 1

\* A batch of two whose first item was inserted and whose second has just been
\* skipped for its co-signature.
C16_SkippedAfterInsert ==
  \E t \in Threads :
    /\ th[t].pc = "check" /\ th[t].n = 2 /\ th[t].i = 2
    /\ outcome = "skip_cosig"
    /\ Cardinality(m_microBlocks[th[t].epochNumber]) = 1

\* The returns of the repair operation that end a batch before the gap check.
AbortOutcomes == {"size_mismatch", "aborted_not_latest", "aborted_persist"}

\* C17: the repair operation returns true exactly when it notifies
\* cv_MissingMicroBlock, and it does both exactly in the step that evaluates
\* CheckMicroBlocks after the loop, with the lock released, and finds no gap; an
\* aborted batch never reaches that step, and every other return is false
\* without a notification.
C17_Step ==
  /\ cv_MissingMicroBlock' = 1 <=> outcome' = "repaired"
  /\ cv_MissingMicroBlock' \in {0, 1}
  /\ outcome' = "repaired"
       <=> \E t \in Threads : /\ th[t].pc = "check" /\ th'[t] = Idle
                               /\ m_mutexMicroBlocks # t
                               /\ CheckMicroBlocks
  /\ outcome' = "still_missing"
       <=> \E t \in Threads : /\ th[t].pc = "check" /\ th'[t] = Idle
                               /\ ~CheckMicroBlocks
  /\ ReturnsTrue("repaired") /\ ~ReturnsTrue("still_missing")
  /\ outcome' \in AbortOutcomes
       => /\ ~ReturnsTrue(outcome')
          /\ \A t \in Threads : th[t].op = "missing" /\ th'[t] # th[t]
                                   => th'[t] = Idle /\ th[t].pc # "check"

C17_TrueIffNotifiedIffNoGap == [][C17_Step]_vars

\* Witness for C17: a batch that was not aborted and found no gap has just
\* returned true and notified the waiters.
C17_RepairedAndNotified ==
  /\ outcome = "repaired"
  /\ cv_MissingMicroBlock = 1
  /\ CheckMicroBlocks
  /\ Bucket(m_missingMicroBlocks, m_currentEpochNum, {}) # {}

\* A batch whose items were all handled, and which returned false for a gap.
C17_StillMissingSilent ==
  /\ outcome = "still_missing"
  /\ cv_MissingMicroBlock = 0

\* ------------------------------------------------------------------------
\* ProcessStateDelta on its own: the calls of lines 326-332 and 655-664 applied
\* one after the other, in either epoch, to the stores they leave.

\* The microblocks whose declared delta hash and block hash the callers pass on.
DeltaCallers == {"g0", "g1", "alt0", "zerodelta"} \X Epochs

InitDelta ==
  /\ env \in {e \in Environments : e.inputs = ShardInputs}
  /\ m_currentEpochNum \in Epochs
  /\ processing = env.active
  /\ m_stopRecvNewMBSubmission = FALSE
  /\ m_microBlocks = [e \in Epochs |-> {}]
  /\ m_microBlockStateDeltas = [e \in Epochs |-> {}]
  /\ m_stateDeltaFromShards = {}
  /\ accountStoreTemp = {}
  /\ m_MBSubmissionBuffer = << >>
  /\ m_missingMicroBlocks = << >>
  /\ blockStorage = {}
  /\ coinbase = {}
  /\ consensusTasks = 0
  /\ cv_scheduleDSMicroBlockConsensus = 0
  /\ cv_MissingMicroBlock = 0
  /\ m_mutexMicroBlocks = NoThread
  /\ m_mutexMBSubmissionBuffer = NoThread
  /\ th = [t \in Threads |-> Idle]
  /\ outcome = "none"

CallProcessStateDelta ==
  \E id \in DeltaCallers, stateDelta \in Deltas, deserOk \in BOOLEAN, serOk \in BOOLEAN :
    \E r \in {ProcessStateDelta(stateDelta, Block(id).header.stateDeltaHash,
                                Block(id).blockHash, deserOk, serOk)} :
      /\ accountStoreTemp' = r.temp
      /\ m_stateDeltaFromShards' = r.fromShards
      /\ m_microBlockStateDeltas' = r.deltas
      /\ Observe(IF ~r.ok THEN "delta_invalid"
                 ELSE IF r.deltas = m_microBlockStateDeltas THEN "delta_skipped"
                 ELSE "delta_applied", 0)
      /\ UNCHANGED <<env, m_currentEpochNum, processing, signals, m_microBlocks,
                     blockStorage, coinbase, m_MBSubmissionBuffer,
                     m_missingMicroBlocks, m_mutexMicroBlocks,
                     m_mutexMBSubmissionBuffer, th>>

NextDelta == CallProcessStateDelta

SpecDelta == InitDelta /\ [][NextDelta]_vars


\* C18: on a non-lookup node ProcessStateDelta follows the policy table. A zero
\* expected hash gives true and changes neither the account store, nor
\* stateDeltaFromShards, nor microBlockStateDeltas, whatever the delta; a
\* non-zero hash with an empty delta gives false; a non-zero hash with a
\* non-empty delta gives true exactly when the digest matches and both
\* account-store calls succeed, and then, and only then, the delta is recorded
\* under the block hash in the current epoch; a false result leaves
\* microBlockStateDeltas unchanged.
C18_PolicyTable ==
  \A id \in DeltaCallers, stateDelta \in Deltas, deserOk \in BOOLEAN, serOk \in BOOLEAN :
    LET h == Block(id).header.stateDeltaHash
        bh == Block(id).blockHash
        r == ProcessStateDelta(stateDelta, h, bh, deserOk, serOk)
    IN /\ ~LOOKUP_NODE_MODE
       /\ h = ZeroHash
            => /\ r.ok
               /\ r.temp = accountStoreTemp
               /\ r.fromShards = m_stateDeltaFromShards
               /\ r.deltas = m_microBlockStateDeltas
       /\ h # ZeroHash /\ stateDelta = <<>> => ~r.ok
       /\ h # ZeroHash /\ stateDelta # <<>>
            => (r.ok <=> Sha256(stateDelta) = h /\ deserOk /\ serOk)
       /\ h # ZeroHash /\ r.ok
            => /\ {p[2] : p \in {q \in r.deltas[m_currentEpochNum] : q[1] = bh}}
                    = {stateDelta}
               /\ \A k \in DOMAIN r.deltas :
                    k # m_currentEpochNum => r.deltas[k] = m_microBlockStateDeltas[k]
       /\ ~r.ok => r.deltas = m_microBlockStateDeltas

\* Witness for C18: a call with a matching digest has just returned true and the
\* delta stands recorded under the current epoch, so the table is evaluated
\* against stores that already hold an entry.
C18_DeltaRecorded ==
  /\ outcome = "delta_applied"
  /\ m_microBlockStateDeltas[m_currentEpochNum] # {}
  /\ accountStoreTemp # {}

\* ------------------------------------------------------------------------
\* VerifyMicroBlockCoSignature on its own: one call after the other, on every
\* microblock of the catalogue and every shard id up to one past the DS shard.
\* A thread at "cosig" holds the call just made: the microblock in mb, the
\* shardId argument in n.

CoSigShardIds == 0 .. (NumShards + 1)

InitCoSig ==
  /\ env \in {e \in Environments : e.inputs = ShardInputs}
  /\ m_currentEpochNum \in Epochs
  /\ processing = env.active
  /\ m_stopRecvNewMBSubmission = FALSE
  /\ m_microBlocks = [e \in Epochs |-> {}]
  /\ m_microBlockStateDeltas = [e \in Epochs |-> {}]
  /\ m_stateDeltaFromShards = {}
  /\ accountStoreTemp = {}
  /\ m_MBSubmissionBuffer = << >>
  /\ m_missingMicroBlocks = << >>
  /\ blockStorage = {}
  /\ coinbase = {}
  /\ consensusTasks = 0
  /\ cv_scheduleDSMicroBlockConsensus = 0
  /\ cv_MissingMicroBlock = 0
  /\ m_mutexMicroBlocks = NoThread
  /\ m_mutexMBSubmissionBuffer = NoThread
  /\ th = [t \in Threads |-> Idle]
  /\ outcome = "none"

CallVerifyMicroBlockCoSignature ==
  \E id \in Kinds \X Epochs, shardId \in CoSigShardIds :
    /\ th' = [th EXCEPT !["t1"] = [Idle EXCEPT !.pc = "cosig", !.op = "cosig",
                                               !.mb = id, !.n = shardId]]
    /\ Observe(IF VerifyMicroBlockCoSignature(Block(id), shardId)
               THEN "cosig_ok" ELSE "cosig_failed", 0)
    /\ UNCHANGED <<env, m_currentEpochNum, processing, tables, signals,
                   m_MBSubmissionBuffer, m_missingMicroBlocks, m_mutexMicroBlocks,
                   m_mutexMBSubmissionBuffer>>

NextCoSig == CallVerifyMicroBlockCoSignature

SpecCoSig == InitCoSig /\ [][NextCoSig]_vars

\* ceil(2n/3) + 1, from the inequalities that define the ceiling.
Quorum(n) == (CHOOSE k \in 0 .. n : 3 * k >= 2 * n /\ 3 * (k - 1) < 2 * n) + 1

\* The bitmaps of the committee sizes, and of one less than the largest.
CoSigBitmaps ==
  UNION {[1 .. n -> BOOLEAN] : n \in {Len(DSCommittee), Len(shards[1]) - 1,
                                      Len(shards[1]), Len(shards[2])}}

\* A microblock of the catalogue carrying bitmap B2, signed again by the members
\* of a committee at the set positions of B2, in committee order.
SignedBy(id, B2, committee) ==
  [Block(id) EXCEPT
     !.B2 = B2,
     !.CS2 = [by |-> AggregatePubKeys(SelectSeq(
                       [i \in 1 .. Len(B2) |->
                          IF i <= Len(committee) /\ B2[i] THEN committee[i] ELSE ""],
                       LAMBDA k : k # "")),
              over |-> SignedMessage([Block(id) EXCEPT !.B2 = B2])]]

\* The committee the claim names for a shard id.
SelectedCommittee(shardId) ==
  IF shardId = Len(shards) THEN DSCommittee
  ELSE IF shardId < Len(shards) THEN shards[shardId + 1] ELSE <<>>

\* Every bitmap, under every shard id: the check passes exactly for a shard id
\* within range, a bitmap as long as the selected committee, and a count equal
\* to the quorum, the signature being by the selected committee's members at
\* the set positions.
CoSigTable ==
  \A B2 \in CoSigBitmaps, shardId \in CoSigShardIds :
    VerifyMicroBlockCoSignature(
        SignedBy(<<"g0", 1>>, B2, SelectedCommittee(shardId)), shardId)
      <=> /\ shardId <= Len(shards)
          /\ Len(SelectedCommittee(shardId)) = Len(B2)
          /\ CountBits(B2) = Quorum(Len(B2))

\* C19: VerifyMicroBlockCoSignature returns false whenever the shard id is past
\* the DS shard, or the selected committee's size is not the bitmap's, or the
\* number of set bits is not quorum(|B2|) = ceil(2|B2|/3) + 1, above it as well
\* as below it (of ten members exactly 8 can pass; 7 and 9 cannot); the signers
\* are the selected committee's members at the set positions, and the shard id
\* equal to the number of shards selects the DS committee.
C19_CoSigRejectsOffQuorum ==
  /\ CoSigTable
  /\ Len(shards[1]) = 10 /\ Quorum(10) = 8 /\ NumForConsensus(10) = 8
  /\ th["t1"].pc = "cosig" /\ outcome = "cosig_ok"
       => /\ th["t1"].n <= Len(shards)
          /\ Len(SelectedCommittee(th["t1"].n)) = Len(Block(th["t1"].mb).B2)
          /\ CountBits(Block(th["t1"].mb).B2) = Quorum(Len(Block(th["t1"].mb).B2))
          /\ Block(th["t1"].mb).CS2.by =
               {SelectedCommittee(th["t1"].n)[i] :
                  i \in {j \in DOMAIN Block(th["t1"].mb).B2 : Block(th["t1"].mb).B2[j]}}

\* Witness for C19: a microblock of the ten-member shard carrying 9 set bits,
\* signed by those nine, has just been refused.
C19_OverQuorumRefused ==
  /\ th["t1"].pc = "cosig"
  /\ th["t1"].mb[1] = "over"
  /\ th["t1"].n = Block(th["t1"].mb).header.shardId
  /\ CountBits(Block(th["t1"].mb).B2) = 9
  /\ outcome = "cosig_failed"

\* The DS shard's microblock accepted under the shard id that equals the number
\* of shards.
C19_DSCommitteeSelected ==
  /\ th["t1"].pc = "cosig"
  /\ th["t1"].mb[1] = "ds"
  /\ th["t1"].n = Len(shards)
  /\ outcome = "cosig_ok"

\* Every check of a repair item before persistence passed.
ReachesPersist(epochNumber, id, stateDelta) ==
  PassesOwnChecks(epochNumber, id, stateDelta, "none")

\* In a batch under way, an item that is not fresh, or whose persistence fails
\* after every other check passed, ends with an abort and microBlocks untouched.
C20_FailureAborts ==
  \A t \in {u \in Threads : th[u].pc = "missing"}, inp \in env.repairs,
     hdrEpoch \in Epochs :
    /\ ~CheckWhetherBlockIsLatest(Block(<<inp[1], hdrEpoch>>).header.dsBlockNum + 1,
                                  Block(<<inp[1], hdrEpoch>>).header.epochNum)
         => \A fault \in env.faults :
              LET r == MissingItemResult(th[t].epochNumber, <<inp[1], hdrEpoch>>,
                                         inp[2], fault # "coinbase", fault # "persist",
                                         fault # "deserialize", fault # "serialize")
              IN r.out = "aborted_not_latest" /\ r.mbs = m_microBlocks
    /\ ReachesPersist(th[t].epochNumber, <<inp[1], hdrEpoch>>, inp[2])
         /\ "persist" \in env.faults
         => LET r == MissingItemResult(th[t].epochNumber, <<inp[1], hdrEpoch>>,
                                       inp[2], TRUE, FALSE, TRUE, TRUE)
            IN r.out = "aborted_persist" /\ r.mbs = m_microBlocks

\* The step of an abort: the thread leaves the operation at once, with the lock
\* released, false returned, nobody notified and microBlocks as they were.
C20_AbortStep ==
  \A t \in {u \in Threads : th[u].pc = "missing" /\ th'[u] # th[u]} :
    outcome' \in {"aborted_not_latest", "aborted_persist"}
      => /\ th'[t] = Idle
         /\ m_mutexMicroBlocks' = NoThread
         /\ ~ReturnsTrue(outcome')
         /\ cv_MissingMicroBlock' = 0
         /\ m_microBlocks' = m_microBlocks

\* C20: in a repair batch a freshness failure or a persistence failure at item k
\* aborts the batch: the operation returns false at once, so that no item from
\* k on is inserted, CheckMicroBlocks is not evaluated and cv_MissingMicroBlock
\* is not notified, while the items accepted before k stay in microBlocks[epoch].
C20_AbortEndsBatchKeepsEarlier == []C20_FailureAborts /\ [][C20_AbortStep]_vars

\* Witness for C20: a batch has just been aborted for a stale item, on a node
\* whose microblocks all come from repair batches; one of them is still stored.
C20_AbortedWithEarlierKept ==
  /\ outcome = "aborted_not_latest"
  /\ env.submitters = {}
  /\ \A t \in Threads : th[t] = Idle
  /\ m_mutexMicroBlocks = NoThread
  /\ cv_MissingMicroBlock = 0
  /\ \E e \in Epochs : m_microBlocks[e] # {}

\* A batch aborted by a persistence failure.
C20_AbortedPersist ==
  /\ outcome = "aborted_persist"
  /\ \E e \in Epochs : m_microBlocks[e] # {}

\* The block hashes requested for an epoch, and those stored under it.
RequestedHashes(e) == Bucket(m_missingMicroBlocks, e, {})
StoredHashes(e) == {Block(m).blockHash : m \in m_microBlocks[e]}

\* In a batch under way, whatever the item and whatever the answers of the
\* ledgers: an item whose hash was not requested for the epoch leaves microBlocks
\* as they are, and an item whose hash is already stored leaves microBlocks, the
\* coinbase records, the account store, the delta stores and the block storage
\* as they are.
C21_ItemGuards ==
  \A t \in {u \in Threads : th[u].pc = "missing"}, inp \in env.repairs,
     hdrEpoch \in Epochs, fault \in env.faults :
    LET id == <<inp[1], hdrEpoch>>
        r == MissingItemResult(th[t].epochNumber, id, inp[2],
                               fault # "coinbase", fault # "persist",
                               fault # "deserialize", fault # "serialize")
    IN /\ Block(id).blockHash \notin RequestedHashes(th[t].epochNumber)
            => r.mbs = m_microBlocks /\ r.out # "inserted"
       /\ Block(id).blockHash \in StoredHashes(th[t].epochNumber)
            => /\ r.out # "inserted"
               /\ r.mbs = m_microBlocks
               /\ r.cb = coinbase
               /\ r.temp = accountStoreTemp
               /\ r.fromShards = m_stateDeltaFromShards
               /\ r.deltas = m_microBlockStateDeltas
               /\ r.store = blockStorage

\* A step of the repair loop that changes microBlocks adds one microblock, under
\* the message's epoch, whose hash was requested and was not stored before.
C21_InsertStep ==
  \A t \in {u \in Threads : th[u].pc = "missing" /\ th'[u] # th[u]} :
    m_microBlocks' # m_microBlocks
      => \E id \in m_microBlocks'[th[t].epochNumber] :
           /\ m_microBlocks' = [m_microBlocks EXCEPT ![th[t].epochNumber] = @ \cup {id}]
           /\ Block(id).blockHash \in RequestedHashes(th[t].epochNumber)
           /\ Block(id).blockHash \notin StoredHashes(th[t].epochNumber)

\* C21: the repair path inserts an item into microBlocks[epoch] only if, when it
\* is checked, its block hash is in missingMicroBlocks[epoch] and no microblock
\* of that hash is in microBlocks[epoch]; an item already stored is a no-op: no
\* coinbase record, no state-delta application, no persistence write.
C21_RepairInsertsOnlyRequestedOnce == []C21_ItemGuards /\ [][C21_InsertStep]_vars

\* Witness for C21: an item of a batch has just been skipped as already stored,
\* its hash being both requested and stored for the epoch.
C21_StoredItemSkipped ==
  /\ outcome = "skip_have"
  /\ \E e \in Epochs : RequestedHashes(e) \cap StoredHashes(e) # {}
  /\ coinbase # {}
  /\ blockStorage # {}

\* The steps a validator takes inside lock_guard<mutex> g(m_mutexMicroBlocks):
\* the duplicate check of lines 203-218 and the critical section of lines 301-365.
TakesMicroBlocks(t) == th[t].pc \in {"dup", "commit"} /\ th'[t] # th[t]

\* C22: no thread holds the buffer mutex and the microblock mutex at the same
\* time: no state shows one thread as the holder of both, and no validator step
\* that runs under the microblock mutex is taken by the holder of the buffer
\* mutex (the drain has released it before validation starts).
C22_NeverBothLocks ==
  /\ [](\A t \in Threads :
          ~(m_mutexMBSubmissionBuffer = t /\ m_mutexMicroBlocks = t))
  /\ [][\A t \in Threads : TakesMicroBlocks(t) => m_mutexMBSubmissionBuffer # t]_vars

\* A draining thread that holds the buffer mutex and stands before the second
\* critical section of the validator, which takes the microblock mutex.
C22_DrainValidatesUnderBufferLock ==
  \E t \in Threads :
    /\ th[t].op = "drain"
    /\ th[t].pc = "commit"
    /\ m_mutexMBSubmissionBuffer = t

\* The guard of the repair loop's step: the thread is in the loop, holds the
\* microblock mutex, and the batch has an item for it; the step needs nothing else.
LoopCanStep(t) ==
  /\ th[t].pc = "missing"
  /\ m_mutexMicroBlocks = t
  /\ env.repairs # {} /\ env.faults # {}

\* The microblock mutex is held across steps by a thread in the repair loop only.
C23_HolderInLoop ==
  \A t \in Threads : m_mutexMicroBlocks = t => th[t].pc = "missing"

\* Every thread inside an operation stands before a step that needs no lock, or
\* before one whose lock is free, or waits for the microblock mutex behind a
\* thread in the repair loop that can take its own next step.
C23_NoLockCycle ==
  \A t \in {u \in Threads : th[u].pc # "idle"} :
    \/ th[t].pc \in {"verify", "check"}
    \/ th[t].pc \in {"dup", "commit"} /\ m_mutexMicroBlocks = NoThread
    \/ th[t].pc = "missing" /\ m_mutexMicroBlocks = t /\ LoopCanStep(t)
    \/ \E u \in Threads \ {t} :
         /\ th[t].pc \in {"dup", "commit"}
         /\ m_mutexMicroBlocks = u
         /\ th[u].pc = "missing"
         /\ LoopCanStep(u)

\* No step acquires the buffer mutex for a thread that holds the microblock
\* mutex, across steps or within the step.
C23_AcquireStep ==
  \A t \in Threads :
    /\ m_mutexMicroBlocks = t /\ th'[t] # th[t]
         => UNCHANGED <<m_mutexMBSubmissionBuffer, m_MBSubmissionBuffer>>
    /\ m_mutexMBSubmissionBuffer' = t /\ m_mutexMBSubmissionBuffer # t
         => th[t].pc = "idle" /\ m_mutexMicroBlocks # t
    /\ TakesMicroBlocks(t) => m_mutexMBSubmissionBuffer' \in {m_mutexMBSubmissionBuffer, NoThread}

\* C23: no thread acquires the buffer mutex while it holds the microblock mutex,
\* so the only nesting is buffer mutex first, microblock mutex second, and no
\* interleaving of the dispatcher, the validator, the drain and the repair path
\* ends in threads waiting for each other on the two locks.
C23_LockOrderNoDeadlock ==
  /\ [](C23_HolderInLoop /\ C23_NoLockCycle)
  /\ [][C23_AcquireStep]_vars

\* Witness for C23: a draining thread holds the buffer mutex and waits at the
\* validator's first critical section for the microblock mutex, which a thread
\* in the repair loop holds.
C23_DrainWaitsForRepair ==
  \E t, u \in Threads :
    /\ t # u
    /\ m_mutexMBSubmissionBuffer = t
    /\ th[t].pc \in {"dup", "commit"}
    /\ m_mutexMicroBlocks = u
    /\ th[u].pc = "missing"

\* The mutexes the repair thread holds when it looks its item up in the missing
\* list (line 613): the one taken at line 542, and no other.
LocksHeldAtLookup == {"m_mutexMicroBlocks"}

\* The outcomes of a repair item that are decided at or after the lookup.
LookupOutcomes == {"skip_not_missing", "skip_have", "skip_coinbase", "skip_delta",
                   "aborted_persist", "inserted"}

\* C24: every access of the repair path to missingMicroBlocks is read-only and
\* made under the mutex of that table: a step of the loop that reaches the
\* membership check leaves missingMicroBlocks as it was, buckets included, also
\* when the message's epoch has no bucket yet.
C24_MissingListReadOnlyUnderLock ==
  [][\A t \in {u \in Threads : th[u].pc = "missing" /\ th'[u] # th[u]} :
       outcome' \in LookupOutcomes
         => /\ m_missingMicroBlocks' = m_missingMicroBlocks
            /\ DOMAIN m_missingMicroBlocks' = DOMAIN m_missingMicroBlocks
            /\ "M_missing" \in LocksHeldAtLookup]_vars

\* A repair item has just been looked up for an epoch nobody had requested
\* anything for, and the table now has an empty bucket for that epoch.
C24_BucketMadeByLookup ==
  /\ outcome = "skip_not_missing"
  /\ \E e \in DOMAIN m_missingMicroBlocks : m_missingMicroBlocks[e] = {}

\* C25: outside the critical sections of the microblock mutex, every state delta
\* recorded in microBlockStateDeltas[e] under a block hash belongs to a microblock
\* of that hash stored in microBlocks[e], on the validator's path and on the
\* repair path alike.
C25_DeltasBelongToStored ==
  m_mutexMicroBlocks = NoThread
    => \A e \in Epochs : \A p \in m_microBlockStateDeltas[e] : p[1] \in StoredHashes(e)

\* A repair batch has just been aborted by a persistence failure, and the delta
\* of the failed item stays recorded without its microblock.
C25_DeltaOfAbortedItem ==
  /\ outcome = "aborted_persist"
  /\ m_mutexMicroBlocks = NoThread
  /\ \E e \in Epochs : \E p \in m_microBlockStateDeltas[e] :
       \A f \in Epochs : p[1] \notin StoredHashes(f)

====
